---- MODULE Spec2Model ----
(***************************************************************************)
(* psl-types: the List trait's provided methods suffix and domain, the     *)
(* Suffix and Domain views they return, and the views' comparisons.        *)
(* Byte strings are sequences of byte values; a usize is a number in       *)
(* 0..UsizeMax, and an operation that leaves that range panics when the    *)
(* build has overflow checks and wraps when it has none.                   *)
(***************************************************************************)
EXTENDS Integers, Sequences, FiniteSets, TLC

\* ------------------------------------------------------------------ bounds

\* Longest name given to suffix and domain; it stands for isize::MAX, the
\* longest slice there is.
MaxLen == 4

\* Longest name the comparison clients draw their views from.
MaxCmpLen == 3

\* usize::MAX: twice the longest slice, plus one.
UsizeMax == 2 * MaxLen + 1

\* b'.'
Dot == 46

\* The bytes names are made of: '-', '.' and 'a'.
Bytes == {45, Dot, 97}

Strings(k) == UNION {[1..n -> Bytes] : n \in 0..k}

Names == Strings(MaxLen)

CmpNames == Strings(MaxCmpLen)

\* ------------------------------------------------------------ Option, panic

None == [tag |-> "None"]

Some(v) == [tag |-> "Some", val |-> v]

Panic == [tag |-> "Panic"]

NoCall == [tag |-> "NoCall"]

IsSome(r) == r.tag = "Some"

\* ------------------------------------------------------------------- usize

\* The result v of a usize operation: in range it is v; out of range the
\* operation panics (overflow checks) or wraps modulo 2^w (none).
UsizeOp(v, chk) ==
    IF v \in 0..UsizeMax THEN [ok |-> TRUE, val |-> v]
    ELSE IF chk THEN [ok |-> FALSE, val |-> 0]
    ELSE [ok |-> TRUE, val |-> v % (UsizeMax + 1)]

\* ------------------------------------------------------------------ slices

\* name.ends_with(b".")
EndsWithDot(s) == Len(s) > 0 /\ s[Len(s)] = Dot

\* The index of the last '.' of s, 0 when it has none.
LastDot(s) ==
    LET D == {i \in 1..Len(s) : s[i] = Dot}
    IN IF D = {} THEN 0 ELSE CHOOSE i \in D : \A j \in D : j <= i

\* split instead of rsplit: the pieces between the dots, the first first.
SplitLeftFirst(s) ==
    LET D == {i \in 1..Len(s) : s[i] = Dot}
        Cut == {0} \cup D \cup {Len(s) + 1}
        Nth(k) == CHOOSE c \in Cut : Cardinality({x \in Cut : x < c}) = k - 1
    IN [k \in 1..(Cardinality(D) + 1) |-> SubSeq(s, Nth(k) + 1, Nth(k + 1) - 1)]

\* slice.rsplit(|x| *x == b'.'): the pieces between the dots, the last piece
\* first; a slice with no dot (the empty slice too) is one piece.
RECURSIVE RSplit(_)
RSplit(s) ==
    LET d == LastDot(s)
    IN IF d = 0 THEN <<s>>
       ELSE <<SubSeq(s, d + 1, Len(s))>> \o RSplit(SubSeq(s, 1, d - 1))

\* slice.rsplitn(2, |x| *x == b'.').next(): the piece after the last dot,
\* the whole slice when it has no dot; never None.
RSplitN2First(s) == Some(SubSeq(s, LastDot(s) + 1, Len(s)))

\* slice.get(offset..)
GetFrom(s, offset) ==
    IF offset <= Len(s) THEN Some(SubSeq(s, offset + 1, Len(s))) ELSE None

\* slice.get(..offset)
GetTo(s, offset) ==
    IF offset <= Len(s) THEN Some(SubSeq(s, 1, offset)) ELSE None

\* -------------------------------------------------------------- classifier

Types == {"None", "Icann", "Private"}

\* What a List's find may answer: any length, the largest usize included.
Infos == [len : (0..(MaxLen + 1)) \cup {UsizeMax}, typ : Types]

\* ------------------------------------------------------------ List::suffix

\* Labels, were the trailing empty label not skipped.
LabelsNoSkip(name) == RSplit(name)

\* The labels suffix hands to find.
Labels(name) ==
    LET labels == RSplit(name)
    IN IF EndsWithDot(name) THEN Tail(labels) ELSE labels

\* Suffix, were the `len == 0` return left out.
SuffixNoZeroCheck(name, info, chk) ==
    LET fqdn == EndsWithDot(name)
        len == IF fqdn THEN UsizeOp(info.len + 1, chk) ELSE UsizeOp(info.len, chk)
    IN IF ~len.ok THEN Panic
       ELSE LET offset == UsizeOp(Len(name) - len.val, chk)
            IN IF ~offset.ok THEN Panic
               ELSE LET bytes == GetFrom(name, offset.val)
                    IN IF ~IsSome(bytes) THEN None
                       ELSE Some([bytes |-> bytes.val, fqdn |-> fqdn,
                                  typ |-> info.typ])

\* Suffix, were `len += 1` for the trailing dot left out.
SuffixNoFqdnAdjust(name, info, chk) ==
    LET fqdn == EndsWithDot(name)
        len == UsizeOp(info.len, chk)
    IN IF len.val = 0 THEN None
       ELSE LET offset == UsizeOp(Len(name) - len.val, chk)
            IN IF ~offset.ok THEN Panic
               ELSE LET bytes == GetFrom(name, offset.val)
                    IN IF ~IsSome(bytes) THEN None
                       ELSE Some([bytes |-> bytes.val, fqdn |-> fqdn,
                                  typ |-> info.typ])

\* suffix(name), find having answered info.
Suffix(name, info, chk) ==
    LET fqdn == EndsWithDot(name)
        len == IF fqdn THEN UsizeOp(info.len + 1, chk) ELSE UsizeOp(info.len, chk)
    IN IF ~len.ok THEN Panic
       ELSE IF len.val = 0 THEN None
       ELSE LET offset == UsizeOp(Len(name) - len.val, chk)
            IN IF ~offset.ok THEN Panic
               ELSE LET bytes == GetFrom(name, offset.val)
                    IN IF ~IsSome(bytes) THEN None
                       ELSE Some([bytes |-> bytes.val, fqdn |-> fqdn,
                                  typ |-> info.typ])

\* ------------------------------------------------------------ List::domain

\* DomainOf, were the room asked for suffix_len + 1.
DomainOfShortRoom(name, suffix, chk) ==
    LET name_len == Len(name)
        suffix_len == Len(suffix.bytes)
        room == UsizeOp(suffix_len + 1, chk)
    IN IF ~room.ok THEN Panic
       ELSE IF name_len < room.val THEN None
       ELSE LET inner == UsizeOp(1 + suffix_len, chk)
                offset == UsizeOp(name_len - inner.val, chk)
            IN IF ~inner.ok \/ ~offset.ok THEN Panic
               ELSE LET subdomain == GetTo(name, offset.val)
                    IN IF ~IsSome(subdomain) THEN None
                       ELSE LET root_label == RSplitN2First(subdomain.val)
                                sum == UsizeOp(Len(root_label.val) + 1 + suffix_len, chk)
                                off2 == UsizeOp(name_len - sum.val, chk)
                            IN IF ~sum.ok \/ ~off2.ok THEN Panic
                               ELSE LET bytes == GetFrom(name, off2.val)
                                    IN IF ~IsSome(bytes) THEN None
                                       ELSE Some([bytes |-> bytes.val,
                                                  suffix |-> suffix])

\* The rest of domain once suffix(name) has returned Some(suffix).
DomainOf(name, suffix, chk) ==
    LET name_len == Len(name)
        suffix_len == Len(suffix.bytes)
        room == UsizeOp(suffix_len + 2, chk)
    IN IF ~room.ok THEN Panic
       ELSE IF name_len < room.val THEN None
       ELSE LET inner == UsizeOp(1 + suffix_len, chk)
                offset == UsizeOp(name_len - inner.val, chk)
            IN IF ~inner.ok \/ ~offset.ok THEN Panic
               ELSE LET subdomain == GetTo(name, offset.val)
                    IN IF ~IsSome(subdomain) THEN None
                       ELSE LET root_label == RSplitN2First(subdomain.val)
                                registrable_len ==
                                    UsizeOp(Len(root_label.val) + 1 + suffix_len, chk)
                                off2 == UsizeOp(name_len - registrable_len.val, chk)
                            IN IF ~registrable_len.ok \/ ~off2.ok THEN Panic
                               ELSE LET bytes == GetFrom(name, off2.val)
                                    IN IF ~IsSome(bytes) THEN None
                                       ELSE Some([bytes |-> bytes.val,
                                                  suffix |-> suffix])

\* domain(name), find having answered info.
Domain(name, info, chk) ==
    LET s == Suffix(name, info, chk)
    IN IF ~IsSome(s) THEN s ELSE DomainOf(name, s.val, chk)

\* ------------------------------------------------------------- comparisons

Ret(v) == [tag |-> "Ret", val |-> v]

\* &this[..this_len - 1]: the subtraction, then the slice index, which
\* panics when it is past the end.
DropLast(this, chk) ==
    LET end == UsizeOp(Len(this) - 1, chk)
    IN IF ~end.ok \/ end.val > Len(this) THEN Panic
       ELSE Ret(SubSeq(this, 1, end.val))

\* normalise_dot, were the dot of `other` never stripped.
NormaliseDotKeepOther(this, this_is_fqdn, other, chk) ==
    IF this_is_fqdn /\ ~EndsWithDot(other)
    THEN LET t == DropLast(this, chk)
         IN IF t.tag = "Panic" THEN Panic ELSE Ret(<<t.val, other>>)
    ELSE Ret(<<this, other>>)

NormaliseDot(this, this_is_fqdn, other, chk) ==
    LET other_dot == EndsWithDot(other)
    IN IF this_is_fqdn = other_dot THEN Ret(<<this, other>>)
       ELSE IF ~this_is_fqdn
       THEN LET other_len == Len(other)
            IN IF other_len > 0
               THEN Ret(<<this, SubSeq(other, 1, other_len - 1)>>)
               ELSE Ret(<<this, other>>)
       ELSE LET t == DropLast(this, chk)
            IN IF t.tag = "Panic" THEN Panic ELSE Ret(<<t.val, other>>)

Reverse(o) ==
    CASE o = "Less" -> "Greater"
      [] o = "Greater" -> "Less"
      [] OTHER -> o

\* Ordering::then
Then(o, p) == IF o = "Equal" THEN p ELSE o

IntCmp(x, y) == IF x < y THEN "Less" ELSE IF x > y THEN "Greater" ELSE "Equal"

\* <[u8] as Ord>::cmp: the first differing byte decides, then the length.
RECURSIVE SliceCmp(_, _)
SliceCmp(s, t) ==
    IF s = <<>> \/ t = <<>> THEN IntCmp(Len(s), Len(t))
    ELSE IF Head(s) # Head(t) THEN IntCmp(Head(s), Head(t))
    ELSE SliceCmp(Tail(s), Tail(t))

BoolRank(f) == IF f THEN 1 ELSE 0

\* Option<Type>: None, then Some(Icann), then Some(Private).
TypRank(t) == CASE t = "None" -> 0 [] t = "Icann" -> 1 [] OTHER -> 2

\* The body the eq impls share: normalise_dot, then this == other.
EqBytes(this, this_is_fqdn, other, chk) ==
    LET n == NormaliseDot(this, this_is_fqdn, other, chk)
    IN IF n.tag = "Panic" THEN Panic ELSE Ret(n.val[1] = n.val[2])

\* The body the partial_cmp impls share: normalise_dot, then this.cmp(other).
PartialCmpBytes(this, this_is_fqdn, other, chk) ==
    LET n == NormaliseDot(this, this_is_fqdn, other, chk)
    IN IF n.tag = "Panic" THEN Panic ELSE Ret(SliceCmp(n.val[1], n.val[2]))

SuffixEq(a, b, chk) == EqBytes(a.bytes, a.fqdn, b.bytes, chk)

SuffixEqText(a, t, chk) == EqBytes(a.bytes, a.fqdn, t, chk)

SuffixPartialCmp(a, b, chk) == PartialCmpBytes(a.bytes, a.fqdn, b.bytes, chk)

\* derive(Ord) on Suffix: the fields in order, each by its own Ord.
SuffixCmp(a, b) ==
    Then(SliceCmp(a.bytes, b.bytes),
         Then(IntCmp(BoolRank(a.fqdn), BoolRank(b.fqdn)),
              IntCmp(TypRank(a.typ), TypRank(b.typ))))

DomainEq(a, b, chk) == EqBytes(a.bytes, a.suffix.fqdn, b.bytes, chk)

DomainEqText(a, t, chk) == EqBytes(a.bytes, a.suffix.fqdn, t, chk)

DomainPartialCmp(a, b, chk) ==
    PartialCmpBytes(a.bytes, a.suffix.fqdn, b.bytes, chk)

\* derive(Ord) on Domain.
DomainCmp(a, b) == Then(SliceCmp(a.bytes, b.bytes), SuffixCmp(a.suffix, b.suffix))

\* The comparisons of two views of one kind.
ViewEq(k, a, b, chk) == IF k = "suffix" THEN SuffixEq(a, b, chk) ELSE DomainEq(a, b, chk)

ViewEqText(k, a, t, chk) ==
    IF k = "suffix" THEN SuffixEqText(a, t, chk) ELSE DomainEqText(a, t, chk)

ViewPartialCmp(k, a, b, chk) ==
    IF k = "suffix" THEN SuffixPartialCmp(a, b, chk) ELSE DomainPartialCmp(a, b, chk)

ViewCmp(k, a, b) == IF k = "suffix" THEN SuffixCmp(a, b) ELSE DomainCmp(a, b)

\* ------------------------------------------------------------------- state

VARIABLES
    checks,   \* the build: TRUE with overflow checks, FALSE without
    pc,       \* "ready", or "panicked" once a call has panicked
    op,       \* the call last made: "none", "suffix" or "domain"
    name,     \* its name argument
    labels,   \* the labels it handed to find
    finds,    \* how many times it invoked find
    info,     \* what find answered
    suf,      \* what suffix(name) returned, inside domain too
    dom,      \* what domain(name) returned
    list,     \* the answers of a List that answers by a table: labels -> Info
    kind,     \* the kind of view the client compares: "suffix" or "domain"
    va,       \* the client's first kept result
    vb,       \* its second
    vc,       \* its third
    txt,      \* the text operand of a comparison
    res       \* what the client's comparisons returned

vars == <<checks, pc, op, name, labels, finds, info, suf, dom, list, kind,
          va, vb, vc, txt, res>>

callVars == <<op, name, labels, finds, info, suf, dom>>

clientVars == <<kind, va, vb, vc, txt, res>>

NoInfo == [len |-> 0, typ |-> "None"]

\* List::find on a List that answers by its table: the table's answer to
\* labels it has answered before, any answer to new ones.
Find(table, ls) ==
    IF \E e \in table : e.labels = ls
    THEN {e.info : e \in {x \in table : x.labels = ls}}
    ELSE Infos

\* Before any call: the build is chosen, nothing has been called or kept.
Idle ==
    /\ checks \in BOOLEAN
    /\ pc = "ready"
    /\ op = "none"
    /\ labels = <<>>
    /\ finds = 0
    /\ info = NoInfo
    /\ suf = NoCall
    /\ dom = NoCall
    /\ list = {}
    /\ kind = "none"
    /\ va = NoCall
    /\ vb = NoCall
    /\ vc = NoCall
    /\ txt = NoCall
    /\ res = NoCall

\* ------------------------------------------------------- calls of the List

\* The caller has a name of any bytes to ask the List about.
Init == Idle /\ name \in Names

\* list.suffix(name), find answering i.
CallSuffix ==
    /\ pc = "ready"
    /\ op = "none"
    /\ \E i \in Find(list, Labels(name)) :
        LET r == Suffix(name, i, checks)
        IN /\ op' = "suffix"
           /\ labels' = Labels(name)
           /\ finds' = finds + 1
           /\ info' = i
           /\ list' = list \cup {[labels |-> Labels(name), info |-> i]}
           /\ pc' = IF r.tag = "Panic" THEN "panicked" ELSE "ready"
           /\ suf' = IF r.tag = "Panic" THEN NoCall ELSE r
           /\ dom' = NoCall
    /\ UNCHANGED <<checks, name>>
    /\ UNCHANGED clientVars

\* list.domain(name), find answering i to the suffix call inside.
CallDomain ==
    /\ pc = "ready"
    /\ op = "none"
    /\ \E i \in Find(list, Labels(name)) :
        LET s == Suffix(name, i, checks)
            r == Domain(name, i, checks)
        IN /\ op' = "domain"
           /\ labels' = Labels(name)
           /\ finds' = finds + 1
           /\ info' = i
           /\ list' = list \cup {[labels |-> Labels(name), info |-> i]}
           /\ pc' = IF r.tag = "Panic" THEN "panicked" ELSE "ready"
           /\ suf' = IF s.tag = "Panic" THEN NoCall ELSE s
           /\ dom' = IF r.tag = "Panic" THEN NoCall ELSE r
    /\ UNCHANGED <<checks, name>>
    /\ UNCHANGED clientVars

Next == CallSuffix \/ CallDomain

Spec == Init /\ [][Next]_vars

\* ------------------------------------------- a name, then the name with a dot

\* The caller has a name that does not end with a dot.
InitFqdn == Idle /\ name \in {n \in Strings(MaxLen - 1) : ~EndsWithDot(n)}

\* va = list.suffix(name)
PlainSuffix ==
    /\ pc = "ready"
    /\ va = NoCall
    /\ \E i \in Find(list, Labels(name)) :
        LET r == Suffix(name, i, checks)
        IN /\ op' = "suffix"
           /\ labels' = Labels(name)
           /\ finds' = finds + 1
           /\ info' = i
           /\ list' = list \cup {[labels |-> Labels(name), info |-> i]}
           /\ pc' = IF r.tag = "Panic" THEN "panicked" ELSE "ready"
           /\ suf' = IF r.tag = "Panic" THEN NoCall ELSE r
           /\ va' = IF r.tag = "Panic" THEN NoCall ELSE r
    /\ UNCHANGED <<checks, name, dom, kind, vb, vc, txt, res>>

\* vb = list.suffix(name + "."), asked of the same List
DottedSuffix ==
    /\ pc = "ready"
    /\ va # NoCall
    /\ vb = NoCall
    /\ LET n == name \o <<Dot>>
       IN \E i \in Find(list, Labels(n)) :
           LET r == Suffix(n, i, checks)
           IN /\ op' = "suffix"
              /\ name' = n
              /\ labels' = Labels(n)
              /\ finds' = finds + 1
              /\ info' = i
              /\ list' = list \cup {[labels |-> Labels(n), info |-> i]}
              /\ pc' = IF r.tag = "Panic" THEN "panicked" ELSE "ready"
              /\ suf' = IF r.tag = "Panic" THEN NoCall ELSE r
              /\ vb' = IF r.tag = "Panic" THEN NoCall ELSE r
    /\ UNCHANGED <<checks, dom, kind, va, vc, txt, res>>

\* res = (va == vb, vb == va)
ComparePair ==
    /\ pc = "ready"
    /\ IsSome(va)
    /\ IsSome(vb)
    /\ res = NoCall
    /\ LET ab == SuffixEq(va.val, vb.val, checks)
           ba == SuffixEq(vb.val, va.val, checks)
       IN /\ res' = [op |-> "eq", ab |-> ab, ba |-> ba]
          /\ pc' = IF Panic \in {ab, ba} THEN "panicked" ELSE "ready"
    /\ UNCHANGED <<checks, list, kind, va, vb, vc, txt>>
    /\ UNCHANGED callVars

NextFqdn == PlainSuffix \/ DottedSuffix \/ ComparePair

SpecFqdn == InitFqdn /\ [][NextFqdn]_vars

\* ------------------------------------------------- a client comparing views

\* The types the Lists of the comparing clients answer with.
CmpTypes == {"None", "Icann"}

CmpInfos == [len : 0..MaxCmpLen, typ : CmpTypes]

InitClient == Idle /\ name = <<>>

\* list.suffix(n) or list.domain(n), find answering i.
Lookup(k, n, i) == IF k = "suffix" THEN Suffix(n, i, checks) ELSE Domain(n, i, checks)

\* va = list.suffix(n).expect(..) or list.domain(n).expect(..)
TakeFirst(I) ==
    /\ pc = "ready"
    /\ va = NoCall
    /\ \E k \in {"suffix", "domain"}, n \in CmpNames, i \in I :
        LET r == Lookup(k, n, i)
        IN IF IsSome(r)
           THEN kind' = k /\ va' = r /\ pc' = pc
           ELSE pc' = "panicked" /\ UNCHANGED <<kind, va>>
    /\ UNCHANGED <<checks, list, vb, vc, txt, res>>
    /\ UNCHANGED callVars

\* vb = a second view of the same kind
TakeSecond(I) ==
    /\ pc = "ready"
    /\ IsSome(va)
    /\ vb = NoCall
    /\ txt = NoCall
    /\ \E n \in CmpNames, i \in I :
        LET r == Lookup(kind, n, i)
        IN IF IsSome(r)
           THEN vb' = r /\ pc' = pc
           ELSE pc' = "panicked" /\ UNCHANGED vb
    /\ UNCHANGED <<checks, list, kind, va, vc, txt, res>>
    /\ UNCHANGED callVars

\* vc = a third view of the same kind
TakeThird(I) ==
    /\ pc = "ready"
    /\ IsSome(vb)
    /\ vc = NoCall
    /\ \E n \in CmpNames, i \in I :
        LET r == Lookup(kind, n, i)
        IN IF IsSome(r)
           THEN vc' = r /\ pc' = pc
           ELSE pc' = "panicked" /\ UNCHANGED vc
    /\ UNCHANGED <<checks, list, kind, va, vb, txt, res>>
    /\ UNCHANGED callVars

\* txt = a byte string or text to compare va with
TakeText ==
    /\ pc = "ready"
    /\ IsSome(va)
    /\ vb = NoCall
    /\ txt = NoCall
    /\ \E t \in CmpNames : txt' = Some(t)
    /\ UNCHANGED <<checks, pc, list, kind, va, vb, vc, res>>
    /\ UNCHANGED callVars

\* res = (va == vb, vb == va)
EqViews ==
    /\ pc = "ready"
    /\ IsSome(va)
    /\ IsSome(vb)
    /\ res = NoCall
    /\ LET ab == ViewEq(kind, va.val, vb.val, checks)
           ba == ViewEq(kind, vb.val, va.val, checks)
       IN /\ res' = [op |-> "eq", ab |-> ab, ba |-> ba]
          /\ pc' = IF Panic \in {ab, ba} THEN "panicked" ELSE "ready"
    /\ UNCHANGED <<checks, list, kind, va, vb, vc, txt>>
    /\ UNCHANGED callVars

\* res = (va == txt)
EqText ==
    /\ pc = "ready"
    /\ IsSome(va)
    /\ IsSome(txt)
    /\ res = NoCall
    /\ LET ab == ViewEqText(kind, va.val, txt.val, checks)
       IN /\ res' = [op |-> "eq_text", ab |-> ab]
          /\ pc' = IF ab = Panic THEN "panicked" ELSE "ready"
    /\ UNCHANGED <<checks, list, kind, va, vb, vc, txt>>
    /\ UNCHANGED callVars

\* res = (va.partial_cmp(vb), va.cmp(vb))
CmpViews ==
    /\ pc = "ready"
    /\ IsSome(va)
    /\ IsSome(vb)
    /\ res = NoCall
    /\ LET p == ViewPartialCmp(kind, va.val, vb.val, checks)
       IN /\ res' = [op |-> "cmp", pcmp_ab |-> p,
                     cmp_ab |-> Ret(ViewCmp(kind, va.val, vb.val))]
          /\ pc' = IF p = Panic THEN "panicked" ELSE "ready"
    /\ UNCHANGED <<checks, list, kind, va, vb, vc, txt>>
    /\ UNCHANGED callVars

NextCmp ==
    \/ TakeFirst(CmpInfos)
    \/ TakeSecond(CmpInfos)
    \/ TakeText
    \/ EqViews
    \/ EqText
    \/ CmpViews

SpecCmp == InitClient /\ [][NextCmp]_vars

\* The Lists of the sorting client answer with no type.
OrdInfos == [len : 0..MaxCmpLen, typ : {"None"}]

\* res = the == and partial_cmp of va, vb and vc, as a sort compares them
Order ==
    /\ pc = "ready"
    /\ IsSome(va)
    /\ IsSome(vb)
    /\ IsSome(vc)
    /\ res = NoCall
    /\ LET r == [op |-> "order",
                 eq_ab |-> ViewEq(kind, va.val, vb.val, checks),
                 eq_ba |-> ViewEq(kind, vb.val, va.val, checks),
                 pcmp_ab |-> ViewPartialCmp(kind, va.val, vb.val, checks),
                 pcmp_ba |-> ViewPartialCmp(kind, vb.val, va.val, checks),
                 pcmp_bc |-> ViewPartialCmp(kind, vb.val, vc.val, checks),
                 pcmp_ac |-> ViewPartialCmp(kind, va.val, vc.val, checks)]
       IN /\ res' = r
          /\ pc' = IF Panic \in {r.eq_ab, r.eq_ba, r.pcmp_ab, r.pcmp_ba,
                                 r.pcmp_bc, r.pcmp_ac}
                   THEN "panicked" ELSE "ready"
    /\ UNCHANGED <<checks, list, kind, va, vb, vc, txt>>
    /\ UNCHANGED callVars

NextOrd ==
    \/ TakeFirst(OrdInfos)
    \/ TakeSecond(OrdInfos)
    \/ TakeThird(OrdInfos)
    \/ Order

SpecOrd == InitClient /\ [][NextOrd]_vars

\* ------------------------------------------------- what the claims speak of

\* s without its one trailing dot, when it has one.
StripDot(s) == IF EndsWithDot(s) THEN SubSeq(s, 1, Len(s) - 1) ELSE s

\* The last k bytes of s.
LastBytes(s, k) == SubSeq(s, Len(s) - k + 1, Len(s))

HasDot(s) == \E i \in 1..Len(s) : s[i] = Dot

\* The name whose labels, rightmost first, are ls.
RECURSIVE JoinRev(_)
JoinRev(ls) ==
    IF ls = <<>> THEN <<>>
    ELSE IF Len(ls) = 1 THEN ls[1]
    ELSE JoinRev(Tail(ls)) \o <<Dot>> \o ls[1]

\* ls are the labels of s split on ".", rightmost first.
IsRSplitOf(ls, s) ==
    /\ Len(ls) = Cardinality({i \in 1..Len(s) : s[i] = Dot}) + 1
    /\ \A i \in 1..Len(ls) : ~HasDot(ls[i])
    /\ JoinRev(ls) = s

\* A domain name: labels that are not empty and neither begin nor end with
\* '-' (45), with or without the root's trailing dot.
ValidName(n) ==
    LET ls == RSplit(StripDot(n))
    IN \A i \in 1..Len(ls) :
        /\ ls[i] # <<>>
        /\ ls[i][1] # 45
        /\ ls[i][Len(ls[i])] # 45

\* A call has been made (it returned or it panicked).
Called == op # "none"

\* The length find answered, plus one for the trailing dot.
AdjustedLen == info.len + (IF EndsWithDot(name) THEN 1 ELSE 0)

\* ------------------------------------------------------------------ claims

\* C1: whatever find answers, an answer longer than the name included, suffix
\* and domain return None: the call does not panic.
C1_InconsistentAnswerIsAbsent ==
    (Called /\ info.len > Len(name)) =>
        /\ pc = "ready"
        /\ suf = None
        /\ (op = "domain" => dom = None)

\* find answered 0, or the length of some rightmost labels of the name.
AnswerOnLabelBoundary ==
    \/ info.len = 0
    \/ \E k \in 1..Len(labels) : info.len = Len(JoinRev(SubSeq(labels, 1, k)))

\* C2: for a valid name with a suffix, the domain, when present, is one
\* non-empty label, a dot and the suffix's bytes; so it is for every answer
\* of find that ends at a label boundary, the answer 0 for a name with a
\* trailing dot included.
C2_DomainIsLabelDotSuffix ==
    (/\ op = "domain"
     /\ ValidName(name)
     /\ AnswerOnLabelBoundary
     /\ IsSome(suf)
     /\ IsSome(dom)) =>
        LET d == dom.val.bytes
            s == suf.val.bytes
            k == Len(d) - Len(s) - 1
        IN /\ Len(d) >= Len(s) + 2
           /\ LastBytes(d, Len(s)) = s
           /\ k >= 1
           /\ ~HasDot(SubSeq(d, 1, k))
           /\ d = SubSeq(d, 1, k) \o <<Dot>> \o s

\* C3 as stated: when find answers (0, None), suffix and domain return None,
\* whether or not the name ends with a dot.
C3_NoMatchIsAbsent ==
    (Called /\ info = NoInfo) =>
        /\ pc = "ready"
        /\ suf = None
        /\ (op = "domain" => dom = None)

\* C3 amended: when find answers (0, None) for a name that does not end with
\* a dot, suffix and domain return None; for a name that ends with a dot the
\* suffix is that dot alone, fully qualified and of no type.
C3_NoMatchIsAbsentUnlessDotted ==
    (Called /\ info = NoInfo) =>
        /\ pc = "ready"
        /\ IF EndsWithDot(name)
           THEN suf = Some([bytes |-> <<Dot>>, fqdn |-> TRUE, typ |-> "None"])
           ELSE suf = None /\ (op = "domain" => dom = None)

C3_Witness ==
    /\ op = "domain"
    /\ info = NoInfo
    /\ Len(name) = MaxLen
    /\ ~EndsWithDot(name)
    /\ suf = None
    /\ dom = None

\* C7: when the adjusted length L is in 1..Len(name), the suffix is present,
\* its bytes are the last L bytes of the name, it is fully qualified exactly
\* when the name (and so its bytes) ends with a dot, and its type is find's.
C7_SuffixIsTail ==
    (Called /\ AdjustedLen > 0 /\ AdjustedLen <= Len(name)) =>
        /\ pc = "ready"
        /\ IsSome(suf)
        /\ suf.val.bytes = LastBytes(name, AdjustedLen)
        /\ suf.val.bytes # <<>>
        /\ suf.val.fqdn = EndsWithDot(name)
        /\ suf.val.fqdn = EndsWithDot(suf.val.bytes)
        /\ suf.val.typ = info.typ

C7_Witness ==
    /\ op = "suffix"
    /\ EndsWithDot(name)
    /\ Len(name) = MaxLen
    /\ info = [len |-> 1, typ |-> "Icann"]
    /\ IsSome(suf)
    /\ Len(suf.val.bytes) = 2

\* C8 as stated: find is invoked once, with the labels of the name split on
\* ".", rightmost first, less the trailing empty label of a name that ends
\* with a dot; for the name "." that is no label at all.
C8_LabelsHandedToFind ==
    Called =>
        /\ finds = 1
        /\ IsRSplitOf(labels, StripDot(name))
        /\ (name = <<Dot>> => labels = <<>>)

\* C8 amended: the same, but for the name "." find receives one label, the
\* empty one.
C8_LabelsHandedToFindOneEmpty ==
    Called =>
        /\ finds = 1
        /\ IsRSplitOf(labels, StripDot(name))
        /\ (name = <<Dot>> => labels = << <<>> >>)

C8_Witness ==
    /\ Called
    /\ name = <<Dot>>
    /\ finds = 1
    /\ labels = << <<>> >>

\* C9: domain(name) is present exactly when suffix(name) is present and the
\* name has at least two bytes more than the suffix; a domain call that
\* returns otherwise returns None, the suffix it carries is suffix(name), and
\* then no byte of the name lies left of the suffix's separating dot. So "a"
\* with find answering 1, "." and "" with find answering 0 have no domain.
C9_DomainPresence ==
    op = "domain" =>
        /\ IsSome(dom) <=>
               (IsSome(suf) /\ Len(name) >= Len(suf.val.bytes) + 2)
        /\ pc = "ready" =>
               /\ ~IsSome(dom) => dom = None
               /\ IsSome(dom) => dom.val.suffix = suf.val
               /\ (dom = None /\ IsSome(suf)) =>
                      Len(name) - Len(suf.val.bytes) - 1 <= 0
        /\ (name = <<97>> /\ info.len = 1) =>
               IsSome(suf) /\ suf.val.bytes = name /\ dom = None
        /\ (name = <<Dot>> /\ info.len = 0) =>
               IsSome(suf) /\ suf.val.bytes = name /\ dom = None
        /\ (name = <<>> /\ info.len = 0) => suf = None /\ dom = None

C9_Witness ==
    /\ op = "domain"
    /\ pc = "ready"
    /\ IsSome(suf)
    /\ Len(name) = Len(suf.val.bytes) + 1
    /\ ~EndsWithDot(name)
    /\ name[1] = Dot
    /\ dom = None

\* Both suffix(n) and suffix(n + ".") have returned.
BothReturned == va # NoCall /\ vb # NoCall

\* suffix(n) and suffix(n + ".") are both None, or both present with bytes
\* that differ by the trailing dot alone, of one type, and equal under ==.
AbsentOrAlike ==
    \/ va = None /\ vb = None
    \/ /\ IsSome(va)
       /\ IsSome(vb)
       /\ vb.val.bytes = va.val.bytes \o <<Dot>>
       /\ vb.val.typ = va.val.typ
       /\ res # NoCall => (res.ab = Ret(TRUE) /\ res.ba = Ret(TRUE))

Le(p) == p \in {Ret("Less"), Ret("Equal")}

\* C5: == and partial_cmp on the views suffix and domain return make one
\* total order: == is symmetric, partial_cmp is Equal exactly when ==
\* holds, partial_cmp(b, a) is the reverse of partial_cmp(a, b), and
\* a <= b and b <= c give a <= c.
C5_ConsistentTotalOrder ==
    (res # NoCall /\ res.op = "order") =>
        /\ res.eq_ab = res.eq_ba
        /\ (res.pcmp_ab = Ret("Equal")) <=> (res.eq_ab = Ret(TRUE))
        /\ res.pcmp_ab # Panic
        /\ res.pcmp_ba # Panic
        /\ res.pcmp_ba = Ret(Reverse(res.pcmp_ab.val))
        /\ (Le(res.pcmp_ab) /\ Le(res.pcmp_bc)) => Le(res.pcmp_ac)

\* The bytes of a view of either kind.
ViewBytes(v) == v.bytes

\* C6: a view equals a view or a text exactly when the two byte strings are
\* the same once each has lost its one trailing dot, and the comparison
\* never panics.
C6_EqualityModuloTrailingDot ==
    /\ (res # NoCall /\ res.op = "eq") =>
           /\ res.ab = Ret(StripDot(ViewBytes(va.val)) = StripDot(ViewBytes(vb.val)))
           /\ res.ba = res.ab
    /\ (res # NoCall /\ res.op = "eq_text") =>
           res.ab = Ret(StripDot(ViewBytes(va.val)) = StripDot(txt.val))

C6_Witness ==
    /\ res # NoCall
    /\ res.op = "eq_text"
    /\ kind = "domain"
    /\ ~EndsWithDot(ViewBytes(va.val))
    /\ EndsWithDot(txt.val)
    /\ Len(txt.val) = MaxCmpLen
    /\ res.ab = Ret(TRUE)

\* C10: cmp agrees with partial_cmp on every pair of suffix views and every
\* pair of domain views.
C10_CmpAgreesWithPartialCmp ==
    (res # NoCall /\ res.op = "cmp") => res.cmp_ab = res.pcmp_ab

====
